---- MODULE Spec2Model ----
(***************************************************************************)
(* A model of the XNAT store adapter of arcana-xnat:                       *)
(*   src/arcana/xnat/data/api.py  (class Xnat, the REST/network store)     *)
(*   src/arcana/xnat/data/cs.py   (class XnatViaCS, the direct-mount store)*)
(*                                                                         *)
(* The module holds several specifications, one per group of operations,   *)
(* over disjoint groups of variables; a specification leaves the variables *)
(* of the other groups at their idle values.                               *)
(*   SpecTree      populate_tree over a project's experiment collection    *)
(*   SpecRow       populate_row and the operations that change a row       *)
(*   SpecXrow      get_xrow and the placeholder subjects it creates        *)
(*   SpecDownload  download_files step by step, and the two checksum maps  *)
(*   SpecMount     get_input_mount and get_fileset of the direct-mount     *)
(*                 store                                                   *)
(***************************************************************************)
EXTENDS Integers, Sequences, FiniteSets, TLC

VARIABLES
    \* ---- the remote project as populate_tree sees it
    xexperiments,   \* set of [label, subject]: the project's experiment collection
    leaves,         \* the tree: the sequence of add_leaf calls, each <<subject, session>>
    tree_src,       \* the experiment collection the last populate_tree iterated
    populated       \* TRUE once populate_tree has run on the tree

treeVars == <<xexperiments, leaves, tree_src, populated>>

VARIABLES
    \* ---- the remote project as populate_row and get_xrow see it
    row,            \* the DataRow under study: [frequency, id, subject, session]
    xsubjects,      \* labels of the project's subject collection
    xsessions,      \* labels of the project's experiment collection
    xscans,         \* the scans of session "e1", in id order
    xfields,        \* set of [xrow, id]: custom fields set on remote objects
    xresources,     \* set of [xrow, id, label, format, files]: row-level resources
    \* ---- the local row
    entries,        \* path -> entry: the row's entries, merged by path
    added,          \* the add_entry calls of the last populate_row, in order
    pop_result,     \* outcome of the last populate_row: "none", "ok", "KeyError"
    npop,           \* populate_row calls since the remote last changed
    once,           \* the row's entries after the first of those calls
    \* ---- get_xrow
    xrow_result,    \* what the last get_xrow returned (an xrow, or an error)
    gx_calls,       \* get_xrow calls since anything else happened
    gx_first,       \* what the first of those calls returned
    gx_subjects0    \* the subject collection before the first of those calls

rowVars == <<row, xsubjects, xsessions, xscans, xfields, xresources, entries,
             added, pop_result, npop, once, xrow_result, gx_calls, gx_first,
             gx_subjects0>>

VARIABLES
    \* ---- download_files and the checksums
    res_label,      \* label of the remote resource entry.uri names
    res_files,      \* its files on the server: relative path -> content
    tmp_zip,        \* tmp_download_dir/download.zip: "none", "valid", "corrupt"
    expanded,       \* tmp_download_dir/expanded: member path -> content
    target,         \* target_path: [exists, files]
    target0,        \* target_path when download_files was called
    dl_pc,          \* where download_files stands
    dl_err,         \* the exception download_files ended with: [type, cause]
    local_sums,     \* result of calculate_checksums, None until computed
    remote_sums     \* result of get_checksums, None until computed

dlVars == <<res_label, res_files, tmp_zip, expanded, target, target0, dl_pc,
            dl_err, local_sums, remote_sums>>

VARIABLES
    \* ---- the direct-mount store (XnatViaCS)
    row_frequency,  \* the frequency the store's mounts are rooted at
    cs_entry,       \* the DataEntry under study: [row, id, uri, datatype]
    input_fs,       \* directories below input_mount: path -> (name -> content)
    output_fs,      \* directories below output_mount: path -> (name -> content)
    staging,        \* cache_path(entry): [exists, links], links: name -> target
    mount_result,   \* outcome of the last get_input_mount call
    fs_result       \* outcome of the last get_fileset call

csVars == <<row_frequency, cs_entry, input_fs, output_fs, staging,
            mount_result, fs_result>>

VARIABLES
    \* ---- the connection to the server and the scopes that hold it
    conn_session,   \* the XNAT session: "open" or "closed"
    conn_stack,     \* the "with self.connection" scopes entered and not left
    conn_opens,     \* connect() calls since the outermost operation began
    conn_prior,     \* state of the session when that operation began
    conn_after,     \* state of the session when it ended, "none" until then
    conn_done       \* operations that ran to their end

connVars == <<conn_session, conn_stack, conn_opens, conn_prior, conn_after,
              conn_done>>

VARIABLES
    \* ---- upload_files
    up_entry,       \* the entry whose cache is uploaded: [path, uri]
    up_cache,       \* cache_path: file name -> content
    up_remote,      \* the files of the remote resource entry.uri names
    up_remote0,     \* those files before the upload
    up_done         \* TRUE once upload_files has run

upVars == <<up_entry, up_cache, up_remote, up_remote0, up_done>>

VARIABLES
    \* ---- provenance
    prov_item,      \* the item whose provenance is asked for: [is_field, path]
    prov_result     \* outcome of the last call: [op, value, error]

provVars == <<prov_item, prov_result>>

VARIABLES
    \* ---- dataset definitions
    def_remote,     \* project id -> [exists, files]: its metadata resource
    def_saved,      \* <<id, name>> -> the definition last saved under them
    def_result      \* outcome of the last load: [called, id, name, value]

defVars == <<def_remote, def_saved, def_result>>

VARIABLES
    \* ---- put_fileset and post_fileset of the direct-mount store
    written,       \* entry id -> the entry and the files last handed over for it
    wr_last,       \* id of the entry written last, <<>> before the first write
    wr_op,         \* "none", "post" or "put": the write that came last
    wr_error       \* what the last write raised, "" when it returned
wrVars == <<written, wr_last, wr_op, wr_error>>

vars == <<treeVars, rowVars, dlVars, csVars, connVars, upVars, provVars, defVars, wrVars>>

\* an operation of one group leaves the other groups alone
TreeFrame == UNCHANGED <<rowVars, dlVars, csVars, connVars,
                           upVars, provVars, defVars, wrVars>>
RowFrame == UNCHANGED <<treeVars, dlVars, csVars, connVars,
                          upVars, provVars, defVars, wrVars>>
DlFrame == UNCHANGED <<treeVars, rowVars, csVars, connVars,
                         upVars, provVars, defVars, wrVars>>
CsFrame == UNCHANGED <<treeVars, rowVars, dlVars, connVars,
                         upVars, provVars, defVars, wrVars>>
ConnFrame == UNCHANGED <<treeVars, rowVars, dlVars, csVars,
                           upVars, provVars, defVars, wrVars>>
UpFrame == UNCHANGED <<treeVars, rowVars, dlVars, csVars,
                         connVars, provVars, defVars, wrVars>>
ProvFrame == UNCHANGED <<treeVars, rowVars, dlVars, csVars,
                           connVars, upVars, defVars, wrVars>>
DefFrame == UNCHANGED <<treeVars, rowVars, dlVars, csVars,
                          connVars, upVars, provVars, wrVars>>
WrFrame == UNCHANGED <<treeVars, rowVars, dlVars, csVars,
                         connVars, upVars, provVars, defVars>>

(***************************************************************************)
(* Bounds and alphabets                                                    *)
(***************************************************************************)
\* number of distinct sessions (experiments) the project of SpecTree may hold
MaxSessions == 3
\* number of scans the session of SpecRow may hold
MaxScans == 2
\* consecutive populate_row calls that are followed
MaxPopulate == 2

SubjectLabels == {"s1", "s2"}
SessionIds == 1..MaxSessions
SessionLabel(n) == "e" \o ToString(n)

Some(x) == {x}
None == {}

(***************************************************************************)
(* Remote project of SpecTree: subjects and imaging sessions               *)
(***************************************************************************)
\* An XNAT project keeps experiment labels unique: creating MrSessionData
\* under a label the project already holds fetches that experiment.
ExperimentLabels(exps) == {e.label : e \in exps}

\* create_test_dataset_data: xclasses.SubjectData(label, parent=xproject)
\* followed by xclasses.MrSessionData(label, parent=xsubject)
CreateSession(subj, n) ==
    /\ SessionLabel(n) \notin ExperimentLabels(xexperiments)
    /\ xexperiments' = xexperiments \cup
          {[id |-> n, label |-> SessionLabel(n), subject |-> subj]}
    /\ UNCHANGED <<leaves, tree_src, populated>>
    /\ TreeFrame

(***************************************************************************)
(* populate_tree                                                           *)
(***************************************************************************)
\* the experiments in the order the collection lists them (by accession id)
RECURSIVE ExperimentValues(_)
ExperimentValues(exps) ==
    IF exps = {} THEN <<>>
    ELSE LET first == CHOOSE e \in exps : \A o \in exps : e.id <= o.id
         IN  <<first>> \o ExperimentValues(exps \ {first})

\* the argument of tree.add_leaf for one experiment
LeafOf_SubjectOnly(exp) == <<exp.subject, exp.subject>>

LeafOf(exp) == <<exp.subject, exp.label>>

\* for exp in self.connection.projects[tree.dataset_id].experiments.values():
\*     tree.add_leaf([exp.subject.label, exp.label])
\* The tree is the fresh DataTree the caller hands in.
populate_tree ==
    /\ leaves' = [i \in 1..Cardinality(xexperiments) |->
                     LeafOf(ExperimentValues(xexperiments)[i])]
    /\ tree_src' = xexperiments
    /\ populated' = TRUE
    /\ UNCHANGED xexperiments
    /\ TreeFrame

TreeInit ==
    /\ xexperiments = {}
    /\ leaves = <<>>
    /\ tree_src = {}
    /\ populated = FALSE

TreeNext ==
    \/ \E s \in SubjectLabels, n \in SessionIds : CreateSession(s, n)
    \/ populate_tree

(***************************************************************************)
(* Rows, remote objects and URIs                                           *)
(***************************************************************************)
Project == "P1"

\* a URI is the sequence of its "/"-separated segments
ProjectUri == <<"data", "archive", "projects", Project>>

\* row.id: None, a str, or a tuple of str
NoId == [kind |-> "none", parts |-> <<>>]
StrId(s) == [kind |-> "str", parts |-> <<s>>]
TupleId(t) == [kind |-> "tuple", parts |-> t]

Rows == {
    [frequency |-> "dataset", id |-> NoId],
    [frequency |-> "subject", id |-> StrId("s1")],
    [frequency |-> "subject", id |-> StrId("s2")],
    [frequency |-> "session", id |-> StrId("e1")],
    [frequency |-> "session", id |-> StrId("e2")],
    [frequency |-> "timepoint", id |-> StrId("t1")],
    [frequency |-> "batch", id |-> TupleId(<<"g1", "t1">>)] }

StandardFrequencies == {"dataset", "subject", "session"}

\* "_".join(parts)
RECURSIVE JoinUnderscore(_)
JoinUnderscore(parts) ==
    IF parts = <<>> THEN ""
    ELSE IF Len(parts) = 1 THEN parts[1]
    ELSE parts[1] \o "_" \o JoinUnderscore(Tail(parts))

\* a name that changes with the state of the project
make_row_name_Counting(r) ==
    "__" \o r.frequency \o "_" \o ToString(Cardinality(xsubjects)) \o "__"

make_row_name(r) ==
    LET id_str == IF r.id.kind = "none" THEN ""
                  ELSE IF r.id.kind = "tuple" THEN "_" \o JoinUnderscore(r.id.parts)
                  ELSE "_" \o r.id.parts[1]
    IN  "__" \o r.frequency \o id_str \o "__"

XProject == [kind |-> "project", label |-> Project, uri |-> ProjectUri]
XSubject(l) == [kind |-> "subject", label |-> l,
                uri |-> ProjectUri \o <<"subjects", l>>]
XExperiment(l) == [kind |-> "experiment", label |-> l,
                   uri |-> ProjectUri \o <<"experiments", l>>]
XKeyError(k) == [kind |-> "KeyError", label |-> k, uri |-> <<>>]

\* get_xrow: the object it returns (or the KeyError of the failed lookup)
XrowOf(r) ==
    IF r.frequency = "dataset" THEN XProject
    ELSE IF r.frequency = "subject"
         THEN IF r.id.parts[1] \in xsubjects
              THEN XSubject(r.id.parts[1]) ELSE XKeyError(r.id.parts[1])
    ELSE IF r.frequency = "session"
         THEN IF r.id.parts[1] \in xsessions
              THEN XExperiment(r.id.parts[1]) ELSE XKeyError(r.id.parts[1])
    ELSE XSubject(make_row_name(r))

\* get_xrow: the subject collection it leaves; SubjectData(label, parent)
\* creates the subject under that label or fetches the one that exists
SubjectsAfterXrow(r) ==
    IF r.frequency \in StandardFrequencies THEN xsubjects
    ELSE xsubjects \cup {make_row_name(r)}

(***************************************************************************)
(* Resources, file listings and checksums                                  *)
(***************************************************************************)
\* the order in which a resource collection lists its labels
LabelOrder == <<"DICOM", "NIFTI", "deriv", "secondary">>

LabelsInOrder(S) == SelectSeq(LabelOrder, LAMBDA l : l \in S)

\* the server's accession id of a resource; xresource.uri ends with it
ResourceId(label) == "id_" \o label

\* segments that match \w+ (no ".", no "-")
WordSegments == {"DICOM", "NIFTI", "deriv", "secondary", "files", "resources",
                 "sub", "x", "id_DICOM", "id_NIFTI", "id_deriv", "id_secondary"}

\* hashlib.md5 / the digest XNAT keeps per file
Md5(content) == "md5(" \o content \o ")"

EmptyFiles == [p \in {} |-> ""]

\* xresource.uri of a resource directly under parent_uri
XResourceUri(parent_uri, label) == parent_uri \o <<"resources", ResourceId(label)>>

\* a URI that keeps the accession id as its last segment
get_resource_uri_KeepsId(xresource_uri, label) == xresource_uri
\* _get_resource_uri: re.match(r"(.*/)[^/]+", xresource.uri).group(1) + label

get_resource_uri(xresource_uri, label) ==
    SubSeq(xresource_uri, 1, Len(xresource_uri) - 1) \o <<label>>

\* connection.get_json(uri + "/files")["ResultSet"]["Result"] for a resource
\* that holds `files` (relative path -> content) under xresource_uri
FileListing(xresource_uri, files) ==
    {[URI |-> xresource_uri \o <<"files">> \o p, digest |-> Md5(files[p])] :
        p \in DOMAIN files}

\* re.match(r".*/resources/\w+/files/(.*)$", u): the position of the
\* "resources" segment the greedy ".*" settles on (the last one), 0 if none
ResourcesMatch(u) ==
    LET hits == {i \in 1..Len(u) :
                    /\ i + 2 < Len(u)
                    /\ u[i] = "resources"
                    /\ u[i + 1] \in WordSegments
                    /\ u[i + 2] = "files"}
    IN  IF hits = {} THEN 0 ELSE CHOOSE i \in hits : \A j \in hits : j <= i

\* .group(1): the path after that match
StripBaseUri(u) == SubSeq(u, ResourcesMatch(u) + 3, Len(u))

\* get_checksums, from the listing the server returns: key -> digest.
\* sorted() decides which digest a key keeps when two URIs strip to the same
\* key; the listings here hold no two such URIs.
ChecksumsOfListing(listing) ==
    [k \in {StripBaseUri(r.URI) : r \in listing} |->
        (CHOOSE r \in listing : StripBaseUri(r.URI) = k).digest]

(***************************************************************************)
(* Path translation (arcana.core.utils.misc)                               *)
(***************************************************************************)
\* varname2path: undoes the escaping of path2varname; a name without an
\* escape sequence is its own path
varname2path(name) ==
    CASE name = "deriv__l__out" -> "deriv/out"
      [] OTHER -> name

\* varname2path raises on a name whose escape sequence it cannot undo
Untranslatable == {"f__bad__"}
path2varname(path) ==
    CASE path = "deriv/out" -> "deriv__l__out"
      [] OTHER -> path

(***************************************************************************)
(* Datatypes (fileformats)                                                 *)
(***************************************************************************)
\* datatype.mime_like
MimeLike(datatype) ==
    CASE datatype = "Json" -> "application/json"
      [] OTHER -> "core/file-set"

\* FileSet.from_mime(format), FileSet on FormatRecognitionError
FromMime(format) ==
    CASE format = "application/json" -> "Json"
      [] OTHER -> "FileSet"

(***************************************************************************)
(* The row's entries                                                       *)
(***************************************************************************)
\* row.add_entry(path, datatype, uri, item_metadata, order, quality,
\* checksums) builds this DataEntry
Entry(path, datatype, uri, order, quality, item_metadata, checksums) ==
    [path |-> path, datatype |-> datatype, uri |-> uri, order |-> order,
     quality |-> quality, item_metadata |-> item_metadata,
     checksums |-> checksums]

NoUri == <<>>
DefaultQuality == "usable"

\* DataRow.add_entry: the row keeps one entry per path
add_entry(ents, e) == (e.path :> e) @@ ents

RECURSIVE add_entries(_, _)
add_entries(ents, calls) ==
    IF calls = <<>> THEN ents
    ELSE add_entries(add_entry(ents, Head(calls)), Tail(calls))

NoEntries == [p \in {} |-> 0]

(***************************************************************************)
(* populate_row                                                            *)
(***************************************************************************)
\* xrow.scans: only an experiment has the attribute
HasScans(xrow) == xrow.kind = "experiment"
ScansOf(xrow) == IF xrow.label = "e1" THEN xscans ELSE <<>>

ScanUri(xrow, id) == xrow.uri \o <<"scans", ToString(id)>>

\* the entry of one resource of one scan, with the order taken from the
\* number of entries the row already holds
ScanEntry_OrderByCount(xrow, id, xscan, label) ==
    Entry(xscan.type \o "/" \o label, "FileSet",
          get_resource_uri(XResourceUri(ScanUri(xrow, id), label), label),
          Some(id + Cardinality(DOMAIN entries)), xscan.quality, {}, None)

\* the entry of one resource of one scan, under the resource label alone
ScanEntry_LabelOnly(xrow, id, xscan, label) ==
    Entry(label, "FileSet",
          get_resource_uri(XResourceUri(ScanUri(xrow, id), label), label),
          Some(id), xscan.quality, {}, None)

\* row.add_entry(path=f"{xscan.type}/{xresource.label}", datatype=FileSet,
\*               order=xscan.id, quality=xscan.quality,
\*               uri=self._get_resource_uri(xresource))
ScanEntry(xrow, id, xscan, label) ==
    Entry(xscan.type \o "/" \o label, "FileSet",
          get_resource_uri(XResourceUri(ScanUri(xrow, id), label), label),
          Some(id), xscan.quality, {}, None)

\* for xresource in xscan.resources.values(): row.add_entry(...)
ScanResourceEntries(xrow, id, xscan) ==
    LET labels == LabelsInOrder(xscan.resources)
    IN  [k \in 1..Len(labels) |-> ScanEntry(xrow, id, xscan, labels[k])]

\* for xscan in xscans.values(): ...
RECURSIVE ScanEntriesFrom(_, _)
ScanEntriesFrom(xrow, i) ==
    IF i > Len(ScansOf(xrow)) THEN <<>>
    ELSE ScanResourceEntries(xrow, i, ScansOf(xrow)[i])
            \o ScanEntriesFrom(xrow, i + 1)

ScanEntries(xrow) == IF HasScans(xrow) THEN ScanEntriesFrom(xrow, 1) ELSE <<>>

\* for field_id in xrow.fields:
\*     row.add_entry(path=varname2path(field_id), datatype=Field, uri=None)
FieldOrder == <<"f1", "f__bad__">>
FieldsOf(xrow) == {f.id : f \in {g \in xfields : g.xrow = xrow.uri}}
FieldIdsOf(xrow) == SelectSeq(FieldOrder, LAMBDA f : f \in FieldsOf(xrow))
\* the position of the first field id varname2path raises on, 0 if none
FirstUntranslatable(ids) ==
    LET bad == {k \in 1..Len(ids) : ids[k] \in Untranslatable}
    IN  IF bad = {} THEN 0 ELSE CHOOSE k \in bad : \A j \in bad : k <= j
FieldEntries(xrow) ==
    LET all == FieldIdsOf(xrow)
        stop == FirstUntranslatable(all)
        ids == IF stop = 0 THEN all ELSE SubSeq(all, 1, stop - 1)
    IN  [k \in 1..Len(ids) |->
            Entry(varname2path(ids[k]), "Field", NoUri, None, DefaultQuality,
                  {}, None)]

\* get_dicom_header(uri): the header the dicomdump service returns for
\* scan_uri = "/" + "/".join(uri.split("/")[2:-2])
get_dicom_header(uri) == {[src |-> SubSeq(uri, 2, Len(uri) - 2)]}

ResourcesOf(xrow) == {r \in xresources : r.xrow = xrow.uri}

\* get_checksums(uri) of a row-level resource
get_checksums(r) ==
    ChecksumsOfListing(FileListing(XResourceUri(r.xrow, r.label), r.files))

\* the body of "for xresource in xrow.resources.values()"
ResourceEntry(r) ==
    LET uri == get_resource_uri(XResourceUri(r.xrow, r.label), r.label)
        from_mime == FromMime(r.format)
        is_dicom == r.label \in {"DICOM", "secondary"}
        datatype == IF is_dicom /\ from_mime = "FileSet" THEN "DicomSet"
                    ELSE from_mime
        item_metadata == IF is_dicom THEN get_dicom_header(uri) ELSE {}
    IN  Entry("@" \o varname2path(r.label), datatype, uri, None,
              DefaultQuality, item_metadata, Some(get_checksums(r)))

ResourceEntries(xrow) ==
    LET labels == LabelsInOrder({r.label : r \in ResourcesOf(xrow)})
    IN  [k \in 1..Len(labels) |->
            ResourceEntry(CHOOSE r \in ResourcesOf(xrow) : r.label = labels[k])]

\* every add_entry call of populate_row on the resolved xrow, in order
\* the error of varname2path ends the call where it is raised
TranslationError(xrow) == FirstUntranslatable(FieldIdsOf(xrow)) # 0
PopulateCalls(xrow) ==
    IF TranslationError(xrow)
    THEN ScanEntries(xrow) \o FieldEntries(xrow)
    ELSE ScanEntries(xrow) \o FieldEntries(xrow) \o ResourceEntries(xrow)

\* what every operation other than populate_row does to the bookkeeping
NotAPopulate == /\ npop' = 0
                /\ UNCHANGED <<added, pop_result, once>>

\* what every operation other than get_xrow does to its bookkeeping
NotAGetXrow == /\ gx_calls' = 0
               /\ UNCHANGED <<xrow_result, gx_first, gx_subjects0>>

populate_row ==
    LET xrow == XrowOf(row)
    IN  /\ npop < MaxPopulate
        /\ xsubjects' = SubjectsAfterXrow(row)
        /\ IF xrow.kind = "KeyError"
           THEN /\ pop_result' = "KeyError"
                /\ added' = <<>>
                /\ UNCHANGED entries
           ELSE /\ pop_result' = IF TranslationError(xrow) THEN "ValueError" ELSE "ok"
                /\ added' = PopulateCalls(xrow)
                /\ entries' = add_entries(entries, PopulateCalls(xrow))
        /\ npop' = npop + 1
        /\ once' = IF npop = 0 THEN entries' ELSE once
        /\ NotAGetXrow
        /\ UNCHANGED <<row, xsessions, xscans, xfields, xresources>>
    /\ RowFrame

(***************************************************************************)
(* put_field, create_fileset_entry                                         *)
(***************************************************************************)
FieldIds == {"f1"}

\* put_field: xrow = self.get_xrow(entry.row)
\*            xrow.fields[path2varname(entry.path)] = str(field)
put_field(path) ==
    LET xrow == XrowOf(row)
    IN  /\ xsubjects' = SubjectsAfterXrow(row)
        /\ IF xrow.kind = "KeyError"
           THEN UNCHANGED xfields
           ELSE xfields' = xfields \cup
                              {[xrow |-> xrow.uri, id |-> path2varname(path)]}
        /\ NotAPopulate
        /\ NotAGetXrow
        /\ UNCHANGED <<row, xsessions, xscans, xresources, entries>>
    /\ RowFrame

\* create_fileset_entry(path, datatype, row)
create_fileset_entry(path, datatype) ==
    LET xrow == XrowOf(row)
        derivative == path \in {"@deriv", "@DICOM"}
        stripped == IF path = "@deriv" THEN "deriv" ELSE "DICOM"
        label == path2varname(stripped)
        uri == get_resource_uri(XResourceUri(xrow.uri, label), label)
        exists == \E r \in ResourcesOf(xrow) : r.label = label
    IN  /\ IF ~derivative
           THEN UNCHANGED <<xsubjects, xresources, entries>>  \* NotImplementedError
           ELSE /\ xsubjects' = SubjectsAfterXrow(row)
                /\ IF xrow.kind = "KeyError"
                   THEN UNCHANGED <<xresources, entries>>
                   ELSE /\ xresources' =
                             IF exists THEN xresources
                             ELSE xresources \cup
                                    {[xrow |-> xrow.uri, label |-> label,
                                      format |-> MimeLike(datatype),
                                      files |-> EmptyFiles]}
                        /\ entries' = add_entry(entries,
                              Entry(stripped, datatype, uri, None,
                                    DefaultQuality, {}, None))
        /\ NotAPopulate
        /\ NotAGetXrow
        /\ UNCHANGED <<row, xsessions, xscans, xfields>>
    /\ RowFrame

(***************************************************************************)
(* get_xrow                                                                *)
(***************************************************************************)
MaxXrowCalls == 2

get_xrow ==
    /\ gx_calls < MaxXrowCalls
    /\ xrow_result' = XrowOf(row)
    /\ xsubjects' = SubjectsAfterXrow(row)
    /\ gx_calls' = gx_calls + 1
    /\ gx_first' = IF gx_calls = 0 THEN XrowOf(row) ELSE gx_first
    /\ gx_subjects0' = IF gx_calls = 0 THEN xsubjects ELSE gx_subjects0
    /\ NotAPopulate
    /\ UNCHANGED <<row, xsessions, xscans, xfields, xresources, entries>>
    /\ RowFrame

\* create_test_dataset_data: xclasses.SubjectData(label, parent=xproject)
CreateSubject(label) ==
    /\ label \notin xsubjects
    /\ xsubjects' = xsubjects \cup {label}
    /\ NotAGetXrow
    /\ NotAPopulate
    /\ UNCHANGED <<row, xsessions, xscans, xfields, xresources, entries>>
    /\ RowFrame

(***************************************************************************)
(* download_files                                                          *)
(***************************************************************************)
\* relative paths of files inside a resource
RelPaths == {<<"a.txt">>, <<"sub", "b.txt">>, <<"resources", "x", "files", "c.txt">>}
Contents == {"c1", "c2"}

FileMaps(paths) == UNION {[P -> Contents] : P \in SUBSET paths}

IsPrefix(a, b) == Len(a) <= Len(b) /\ SubSeq(b, 1, Len(a)) = a

\* entry.uri: the resource, addressed by label, under session "e1"
EntryUri == XExperiment("e1").uri \o <<"resources", res_label>>

\* the archive the server streams for entry.uri + "/files": every file under
\* "<resource label>/files/"
ZipMembers == [m \in {<<res_label, "files">> \o p : p \in DOMAIN res_files} |->
                  res_files[SubSeq(m, 3, Len(m))]]

Absent == [exists |-> FALSE, files |-> EmptyFiles]
Dir(files) == [exists |-> TRUE, files |-> files]

NoError == [type |-> "", cause |-> ""]

\* self.connection.download_stream(entry.uri + "/files", f, format="zip"):
\* the bytes that arrive are the archive, or a corrupted or truncated one
download_stream ==
    /\ dl_pc = "start"
    /\ tmp_zip' \in {"valid", "corrupt"}
    /\ dl_pc' = "downloaded"
    /\ UNCHANGED <<res_label, res_files, expanded, target, target0, dl_err,
                   local_sums, remote_sums>>
    /\ DlFrame

\* with ZipFile(zip_path) as zip_file: zip_file.extractall(expanded_dir)
extractall ==
    /\ dl_pc = "downloaded"
    /\ tmp_zip = "valid"
    /\ expanded' = ZipMembers
    /\ dl_pc' = "extracted"
    /\ UNCHANGED <<res_label, res_files, tmp_zip, target, target0, dl_err,
                   local_sums, remote_sums>>
    /\ DlFrame

\* except BadZipfile as e: raise ArcanaError(...) from e
\* (members read before the damaged one may already be in expanded_dir)
extract_BadZipfile ==
    /\ dl_pc = "downloaded"
    /\ tmp_zip = "corrupt"
    /\ \E P \in SUBSET DOMAIN ZipMembers : expanded' = [m \in P |-> ZipMembers[m]]
    /\ dl_pc' = "failed"
    /\ dl_err' = [type |-> "ArcanaError", cause |-> "BadZipfile"]
    /\ UNCHANGED <<res_label, res_files, tmp_zip, target, target0, local_sums,
                   remote_sums>>
    /\ DlFrame

\* a damaged member stream makes zipfile raise zlib.error (or EOFError on
\* a truncated member), which is not a BadZipfile: the except clause does
\* not apply and the error leaves download_files as it is
extract_OtherError ==
    /\ dl_pc = "downloaded"
    /\ tmp_zip = "corrupt"
    /\ \E P \in SUBSET DOMAIN ZipMembers : expanded' = [m \in P |-> ZipMembers[m]]
    /\ dl_pc' = "failed"
    /\ dl_err' = [type |-> "zlib.error", cause |-> "none"]
    /\ UNCHANGED <<res_label, res_files, tmp_zip, target, target0, local_sums,
                   remote_sums>>
    /\ DlFrame

\* glob(str(expanded_dir) + "/**/files", recursive=True): every path under
\* expanded_dir whose last segment is "files"
GlobFiles ==
    {d \in UNION {{SubSeq(m, 1, i) : i \in 1..Len(m)} : m \in DOMAIN expanded} :
        d[Len(d)] = "files"}

\* [0]: the walk is pre-order, so of nested matches the outermost comes first
GlobFirst == CHOOSE d \in GlobFiles : \A o \in GlobFiles : Len(d) <= Len(o)

\* data_path = glob(...)[0]
glob_files ==
    /\ dl_pc = "extracted"
    /\ IF GlobFiles = {}
       THEN /\ dl_pc' = "failed"
            /\ dl_err' = [type |-> "IndexError", cause |-> ""]
       ELSE /\ dl_pc' = "located"
            /\ UNCHANGED dl_err
    /\ UNCHANGED <<res_label, res_files, tmp_zip, expanded, target, target0,
                   local_sums, remote_sums>>
    /\ DlFrame

\* shutil.rmtree(target_path) when the path is absent: ENOENT is ignored
rmtree_absent ==
    /\ dl_pc = "located"
    /\ ~target.exists
    /\ dl_pc' = "removed"
    /\ UNCHANGED <<res_label, res_files, tmp_zip, expanded, target, target0,
                   dl_err, local_sums, remote_sums>>
    /\ DlFrame

\* shutil.rmtree(target_path): the tree goes file by file
rmtree_unlink ==
    /\ dl_pc \in {"located", "removing"}
    /\ target.exists
    /\ \E p \in DOMAIN target.files :
          target' = Dir([q \in DOMAIN target.files \ {p} |-> target.files[q]])
    /\ dl_pc' = "removing"
    /\ UNCHANGED <<res_label, res_files, tmp_zip, expanded, target0, dl_err,
                   local_sums, remote_sums>>
    /\ DlFrame

\* shutil.rmtree(target_path): the emptied directory itself goes last
rmtree_rmdir ==
    /\ dl_pc \in {"located", "removing"}
    /\ target.exists
    /\ DOMAIN target.files = {}
    /\ target' = Absent
    /\ dl_pc' = "removed"
    /\ UNCHANGED <<res_label, res_files, tmp_zip, expanded, target0, dl_err,
                   local_sums, remote_sums>>
    /\ DlFrame

\* except OSError as e: if e.errno != errno.ENOENT: raise e
rmtree_OSError ==
    /\ dl_pc \in {"located", "removing"}
    /\ target.exists
    /\ dl_pc' = "failed"
    /\ dl_err' = [type |-> "OSError", cause |-> "EACCES"]
    /\ UNCHANGED <<res_label, res_files, tmp_zip, expanded, target, target0,
                   local_sums, remote_sums>>
    /\ DlFrame

\* shutil.move(data_path, target_path): one rename, the temporary directory
\* being a sibling of the cache path
move ==
    /\ dl_pc = "removed"
    /\ LET data_path == GlobFirst
           under == {m \in DOMAIN expanded : IsPrefix(data_path, m)}
       IN  /\ target' = Dir([p \in {SubSeq(m, Len(data_path) + 1, Len(m)) :
                                        m \in under} |->
                               expanded[data_path \o p]])
           /\ expanded' = [m \in DOMAIN expanded \ under |-> expanded[m]]
    /\ dl_pc' = "done"
    /\ UNCHANGED <<res_label, res_files, tmp_zip, target0, dl_err, local_sums,
                   remote_sums>>
    /\ DlFrame

\* the process dies in the middle of download_files
crash ==
    /\ dl_pc \in {"downloaded", "extracted", "located", "removing", "removed"}
    /\ dl_pc' = "crashed"
    /\ UNCHANGED <<res_label, res_files, tmp_zip, expanded, target, target0,
                   dl_err, local_sums, remote_sums>>
    /\ DlFrame

(***************************************************************************)
(* get_checksums and calculate_checksums on the downloaded file set        *)
(***************************************************************************)
\* get_checksums(entry.uri): the listing of entry.uri + "/files" names each
\* file by the URI under the resource's accession id
get_checksums_of_entry ==
    /\ dl_pc = "done"
    /\ remote_sums = None
    /\ remote_sums' = Some(ChecksumsOfListing(
           FileListing(XResourceUri(XExperiment("e1").uri, res_label), res_files)))
    /\ UNCHANGED <<res_label, res_files, tmp_zip, expanded, target, target0,
                   dl_pc, dl_err, local_sums>>
    /\ DlFrame

\* fileset.hash_files(crypto=hashlib.md5, relative_to=fileset.fspath.parent):
\* the file set is made of the children of target_path, so the parent of
\* fspath is target_path and a key is the file's path below it
HashFiles(files) == [p \in DOMAIN files |-> Md5(files[p])]

calculate_checksums ==
    /\ dl_pc = "done"
    /\ local_sums = None
    /\ local_sums' = Some(HashFiles(target.files))
    /\ UNCHANGED <<res_label, res_files, tmp_zip, expanded, target, target0,
                   dl_pc, dl_err, remote_sums>>
    /\ DlFrame

(***************************************************************************)
(* The direct-mount store: get_input_mount and get_fileset (cs.py)         *)
(***************************************************************************)
InputMount == <<"input">>
OutputMount == <<"output">>
CacheDir == <<"cache">>

NoDirectMount == "ArcanaNoDirectXnatMountException"

\* what get_input_mount hands back: the path, or the exception it raises
Mounted(path) == [ok |-> TRUE, path |-> path, error |-> ""]
NotMounted == [ok |-> FALSE, path |-> <<>>, error |-> NoDirectMount]

\* a resolution that takes the mount root for every row
get_input_mount_AlwaysRoot(entry) == Mounted(InputMount)

get_input_mount(entry) ==
    IF row_frequency = entry.row.frequency
    THEN Mounted(InputMount)
    ELSE IF row_frequency = "dataset" /\ entry.row.frequency = "session"
    THEN Mounted(InputMount \o entry.row.id.parts)
    ELSE NotMounted

\* the URI of the remote object get_xrow resolves a row to
RowUri(r) ==
    IF r.frequency = "dataset" THEN XProject.uri
    ELSE IF r.frequency = "subject" THEN XSubject(r.id.parts[1]).uri
    ELSE IF r.frequency = "session" THEN XExperiment(r.id.parts[1]).uri
    ELSE XSubject(make_row_name(r)).uri

\* the "path" group of
\*   /data/(?:archive/)?projects/NAME/(?:subjects/NAME/)?(?:experiments/NAME/)?(.*)$
\* over the segments of the URI; None when the URI does not match
UriPath(uri) ==
    LET proj == IF Len(uri) >= 2 /\ uri[2] = "archive" THEN 3 ELSE 2
        rest == proj + 2
        subj == IF Len(uri) >= rest + 2 /\ uri[rest] = "subjects"
                THEN rest + 2 ELSE rest
        expt == IF Len(uri) >= subj + 2 /\ uri[subj] = "experiments"
                THEN subj + 2 ELSE subj
    IN  IF Len(uri) >= rest /\ uri[1] = "data" /\ uri[proj] = "projects"
        THEN Some(SubSeq(uri, expt, Len(uri)))
        ELSE None

\* str.replace acts on substrings: the segments of this model that hold
\* "scans", and what replace("scans", "SCANS") makes of them
HasScansSubstring(seg) == seg \in {"scans", "rescans"}
ReplaceScans(seg) ==
    CASE seg = "scans" -> "SCANS"
      [] seg = "rescans" -> "reSCANS"
      [] OTHER -> seg
\* replace("resources/", ""): a "resources" segment followed by a "/" goes
RECURSIVE DropResourcesSlash(_)
DropResourcesSlash(path) ==
    IF Len(path) <= 1 THEN path
    ELSE IF Head(path) = "resources" THEN DropResourcesSlash(Tail(path))
    ELSE <<Head(path)>> \o DropResourcesSlash(Tail(path))
\* replace("resources", "RESOURCES")
ReplaceResources(seg) ==
    CASE seg = "resources" -> "RESOURCES"
      [] OTHER -> seg

\* the rewriting of the URI's path into the archive's directory names
ArchivePath(path) ==
    LET scanned == IF \E i \in 1..Len(path) : HasScansSubstring(path[i])
                   THEN DropResourcesSlash([i \in 1..Len(path) |-> ReplaceScans(path[i])])
                   ELSE path
    IN  [i \in 1..Len(scanned) |-> ReplaceResources(scanned[i])]

\* a test that takes no item for a catalog
IsCatalog_Never(name) == FALSE

\* item.name.endswith("_catalog.xml")
CatalogNames == {"DICOM_catalog.xml", "deriv_catalog.xml", "rescans_catalog.xml"}
IsCatalog(name) == name \in CatalogNames

\* datatype.is_dir
IsDir(datatype) == datatype = "Directory"

\* cache_path: the cache mirrors the remote hierarchy below its root
CachePath(uri) == CacheDir \o SubSeq(uri, 3, Len(uri))

\* entry_path: self.output_mount.joinpath(*entry.id.split("/"))
entry_path(entry) == OutputMount \o entry.id

NoFiles == [n \in {} |-> ""]
FsResult(via, fspaths, files, error) ==
    [via |-> via, fspaths |-> fspaths, files |-> files, error |-> error]
NoResult == FsResult("none", {}, NoFiles, "")

\* the directory, below the mounted directory of the row, where the archive
\* keeps the resource a URI names: SCANS/<id>/<label> for a resource of a
\* scan, RESOURCES/<label> for a resource of the row
ServerDir(uri) ==
    LET n == Len(uri)
    IN  IF n >= 4 /\ uri[n - 3] = "scans"
        THEN <<"SCANS", uri[n - 2], uri[n]>>
        ELSE <<"RESOURCES", uri[n]>>
\* the files of that resource as the server lists them: the catalog file is
\* the server's own bookkeeping and not one of them
ServerFiles(fs, root, uri) ==
    IF root \o ServerDir(uri) \in DOMAIN fs
    THEN LET items == fs[root \o ServerDir(uri)]
         IN  [n \in {m \in DOMAIN items : ~IsCatalog(m)} |-> items[n]]
    ELSE NoFiles

\* the mounted directory of the row the entry belongs to
RowRoot(entry) ==
    IF row_frequency = "dataset" /\ entry.row.frequency = "session"
    THEN InputMount \o entry.row.id.parts
    ELSE InputMount

\* RemoteStore.get_fileset(entry): the network path, which downloads the
\* files of the resource entry.uri names into the cache
super_get_fileset(entry) ==
    IF entry.uri = NoUri
    THEN FsResult("api", {}, NoFiles, "ArcanaUsageError")
    ELSE LET files == ServerFiles(input_fs, RowRoot(entry), entry.uri)
         IN  FsResult("api", {CachePath(entry.uri) \o <<n>> : n \in DOMAIN files},
                      files, "")

\* a handler that lets the exception of get_input_mount through
except_NoDirectMount_Reraise(entry) == FsResult("direct", {}, NoFiles, NoDirectMount)

\* except ArcanaNoDirectXnatMountException: return super().get_fileset(entry)
except_NoDirectMount(entry) == super_get_fileset(entry)

\* the call of get_input_mount on its own
call_get_input_mount ==
    /\ mount_result' = get_input_mount(cs_entry)
    /\ UNCHANGED <<row_frequency, cs_entry, input_fs, output_fs, staging, fs_result>>
    /\ CsFrame

\* get_fileset, the branch of an entry with a URI, below resource_path
DirectFromArchive(entry, input_mount) ==
    LET path == CHOOSE q \in UriPath(entry.uri) : TRUE
        resource_path == input_mount \o ArchivePath(path)
        found == resource_path \in DOMAIN input_fs
        items == IF found THEN input_fs[resource_path] ELSE NoFiles
        linked == {n \in DOMAIN items : ~IsCatalog(n)}
    IN  IF IsDir(entry.datatype)
        THEN \* rmtree(dir_path), makedirs(dir_path), one symlink per item
             /\ staging' = [exists |-> TRUE,
                            links |-> [n \in linked |-> resource_path \o <<n>>]]
             /\ fs_result' =
                  IF found
                  THEN FsResult("direct", {CachePath(entry.uri)},
                                [n \in linked |-> items[n]], "")
                  ELSE FsResult("direct", {}, NoFiles, "FileNotFoundError")
        ELSE /\ staging' = staging
             /\ fs_result' =
                  IF found
                  THEN FsResult("direct",
                                {resource_path \o <<n>> : n \in DOMAIN items},
                                items, "")
                  ELSE FsResult("direct", {}, NoFiles, "FileNotFoundError")

\* get_fileset, the branch of an entry without a URI, below output_mount
DirectFromOutput(entry) ==
    LET stem_path == entry_path(entry)
        found == stem_path \in DOMAIN output_fs
    IN  IF entry.datatype = "Dicom"
        THEN FsResult("direct", {stem_path},
                      IF found THEN output_fs[stem_path] ELSE NoFiles, "")
        ELSE IF found
        THEN FsResult("direct",
                      {stem_path \o <<n>> : n \in DOMAIN output_fs[stem_path]},
                      output_fs[stem_path], "")
        ELSE FsResult("direct", {}, NoFiles, "FileNotFoundError")

\* the server adds a file to, or drops a file from, the directory of the
\* resource in the archive
archive_update(name) ==
    LET dir == RowRoot(cs_entry) \o ServerDir(cs_entry.uri)
    IN  /\ cs_entry.uri # NoUri
        /\ dir \in DOMAIN input_fs
        /\ input_fs' = [input_fs EXCEPT ![dir] =
              IF name \in DOMAIN @
              THEN [n \in DOMAIN @ \ {name} |-> @[n]]
              ELSE (name :> "c3") @@ @]
        /\ fs_result' = NoResult
        /\ UNCHANGED <<row_frequency, cs_entry, output_fs, staging, mount_result>>
        /\ CsFrame

get_fileset ==
    /\ LET mount == get_input_mount(cs_entry)
       IN  IF ~mount.ok
           THEN /\ fs_result' = except_NoDirectMount(cs_entry)
                /\ staging' = staging
           ELSE IF cs_entry.uri # NoUri
           THEN IF UriPath(cs_entry.uri) = None
                THEN /\ fs_result' = FsResult("direct", {}, NoFiles, "AttributeError")
                     /\ staging' = staging
                ELSE DirectFromArchive(cs_entry, mount.path)
           ELSE /\ fs_result' = DirectFromOutput(cs_entry)
                /\ staging' = staging
    /\ UNCHANGED <<row_frequency, cs_entry, input_fs, output_fs, mount_result>>
    /\ CsFrame

(***************************************************************************)
(* Writing through the direct mount: put_fileset, post_fileset             *)
(***************************************************************************)
\* _make_uri(row); None where it calls self._make_row_name, which the class
\* does not have (AttributeError)
make_uri(r) ==
    LET uri == <<"data", "archive", "projects", Project>>
    IN  IF r.frequency = "session"
        THEN Some(uri \o <<"experiments">> \o r.id.parts)
        ELSE IF r.frequency = "subject"
        THEN Some(uri \o <<"subjects">> \o r.id.parts)
        ELSE IF r.frequency # "dataset"
        THEN None
        ELSE Some(uri)

\* entry_path.parent and entry_path.name
Parent(path) == SubSeq(path, 1, Len(path) - 1)
Name(path) == path[Len(path)]

\* shutil.rmtree(dir): the directory goes with everything below it
IsBelow(path, dir) == Len(path) >= Len(dir) /\ SubSeq(path, 1, Len(dir)) = dir
rmtree(fs, dir) == [d \in {q \in DOMAIN fs : ~IsBelow(q, dir)} |-> fs[d]]

\* fileset.copy_to(dest_dir, stem=stem): a directory is copied to
\* dest_dir/stem, the files of any other file set to dest_dir/stem<ext>
copy_to(fs, fileset, dest_dir, stem) ==
    IF IsDir(fileset.datatype)
    THEN ((dest_dir \o <<stem>>) :> fileset.files) @@ fs
    ELSE LET old == IF dest_dir \in DOMAIN fs THEN fs[dest_dir] ELSE NoFiles
             new == [n \in {stem \o ext : ext \in DOMAIN fileset.files} |->
                        fileset.files[CHOOSE ext \in DOMAIN fileset.files :
                                          n = stem \o ext]]
         IN  (dest_dir :> (new @@ old)) @@ fs

\* the body of put_fileset: what the output mount holds afterwards
PutFiles(fs, fileset, entry) ==
    LET dest_dir == Parent(entry_path(entry))
        stem == Name(entry_path(entry))
        cleared == IF \E d \in DOMAIN fs : IsBelow(d, dest_dir)
                   THEN rmtree(fs, dest_dir) ELSE fs
    IN  copy_to(cleared, fileset, dest_dir, stem)

NoWrites == [i \in {} |-> [entry |-> <<>>, fileset |-> <<>>]]
Record(w, entry, fileset) ==
    (entry.id :> [entry |-> entry, fileset |-> fileset]) @@ w

put_fileset(fileset, entry) ==
    /\ output_fs' = PutFiles(output_fs, fileset, entry)
    /\ cs_entry' = entry
    /\ written' = Record(written, entry, fileset)
    /\ wr_last' = entry.id
    /\ wr_op' = "put"
    /\ wr_error' = ""
    /\ fs_result' = NoResult
    /\ UNCHANGED <<row_frequency, input_fs, staging, mount_result>>
    /\ UNCHANGED <<treeVars, rowVars, dlVars, connVars, upVars, provVars, defVars>>

post_fileset(fileset, path, datatype, r) ==
    IF make_uri(fileset.row) = None
    THEN /\ wr_error' = "AttributeError"
         /\ wr_op' = "post"
         /\ wr_last' = <<>>
         /\ fs_result' = NoResult
         /\ UNCHANGED <<written, row_frequency, cs_entry, input_fs, output_fs,
                        staging, mount_result>>
         /\ UNCHANGED <<treeVars, rowVars, dlVars, connVars, upVars, provVars,
                        defVars>>
    ELSE LET uri == (CHOOSE u \in make_uri(fileset.row) : TRUE)
                        \o <<"RESOURCES">> \o fileset.path
             \* row.add_entry(path=path, datatype=datatype, uri=uri)
             entry == [row |-> r, id |-> path, uri |-> uri, datatype |-> datatype]
         IN  /\ output_fs' = PutFiles(output_fs, fileset, entry)
             /\ cs_entry' = entry
             /\ written' = Record(written, entry, fileset)
             /\ wr_last' = entry.id
             /\ wr_op' = "post"
             /\ wr_error' = ""
             /\ fs_result' = NoResult
             /\ UNCHANGED <<row_frequency, input_fs, staging, mount_result>>
             /\ UNCHANGED <<treeVars, rowVars, dlVars, connVars, upVars,
                            provVars, defVars>>

WrIdle ==
    /\ written = NoWrites
    /\ wr_last = <<>>
    /\ wr_op = "none"
    /\ wr_error = ""

(***************************************************************************)
(* The scoped connection: "with self.connection", connect, disconnect      *)
(***************************************************************************)
\* operations that are followed to their end
MaxOperations == 3

\* connect(): xnat.connect(server=..., **sess_kwargs)
connect == "open"

\* a disconnect that leaves the session as it is
disconnect_Noop(session) == session

\* disconnect(session): session.disconnect()
disconnect(session) == "closed"

\* the operations that open a scope, and "caller" for a scope the client
\* code holds around its calls
Operations == {"populate_tree", "populate_row", "download_files",
               "create_fileset_entry", "get_field", "put_field",
               "get_checksums", "save_dataset_definition",
               "load_dataset_definition", "get_xrow", "get_dicom_header"}

\* the operations an operation calls inside its own scope
Callees(op) ==
    CASE op = "caller" -> Operations
      [] op = "populate_row" -> {"get_xrow", "get_dicom_header", "get_checksums"}
      [] op \in {"create_fileset_entry", "get_field", "put_field"} -> {"get_xrow"}
      [] OTHER -> {}

Top(stack) == stack[Len(stack)]
\* no operation of the store is under way: only the client's scope, if any
AtRest(stack) == stack = <<>> \/ Top(stack) = "caller"

\* entering a scope: the session is opened if no scope holds it
enter(op) ==
    /\ conn_done < MaxOperations
    /\ IF conn_stack = <<>> THEN op \in Operations \cup {"caller"}
       ELSE op \in Callees(Top(conn_stack))
    /\ conn_stack' = Append(conn_stack, op)
    /\ conn_session' = IF conn_stack = <<>> THEN connect ELSE conn_session
    /\ IF AtRest(conn_stack) /\ op # "caller"
       THEN /\ conn_prior' = conn_session
            /\ conn_after' = "none"
            /\ conn_opens' = IF conn_stack = <<>> THEN 1 ELSE 0
       ELSE /\ conn_opens' = IF op = "caller" THEN 0 ELSE conn_opens
            /\ UNCHANGED <<conn_prior, conn_after>>
    /\ UNCHANGED conn_done
    /\ ConnFrame

\* leaving a scope: the session is closed when the last scope leaves it
exit ==
    /\ conn_stack # <<>>
    /\ LET rest == SubSeq(conn_stack, 1, Len(conn_stack) - 1)
           ends == AtRest(rest) /\ Top(conn_stack) # "caller"
       IN  /\ conn_stack' = rest
           /\ conn_session' = IF rest = <<>> THEN disconnect(conn_session)
                              ELSE conn_session
           /\ conn_after' = IF ends THEN conn_session' ELSE conn_after
           /\ conn_done' = IF ends THEN conn_done + 1 ELSE conn_done
    /\ UNCHANGED <<conn_opens, conn_prior>>
    /\ ConnFrame

ConnIdle ==
    /\ conn_session = "closed"
    /\ conn_stack = <<>>
    /\ conn_opens = 0
    /\ conn_prior = "closed"
    /\ conn_after = "none"
    /\ conn_done = 0

(***************************************************************************)
(* upload_files                                                            *)
(***************************************************************************)
\* xresource.upload_dir(directory, overwrite): every file of the directory
\* is sent; a file the resource already holds is replaced when overwrite is
\* set and kept otherwise
upload_dir(remote, directory, overwrite) ==
    IF overwrite THEN directory @@ remote ELSE remote @@ directory

\* xresource = Resource(uri=entry.uri, ...)
\* xresource.upload_dir(cache_path, overwrite=True)
upload_files ==
    /\ ~up_done
    /\ up_remote' = upload_dir(up_remote, up_cache, TRUE)
    /\ up_done' = TRUE
    /\ UNCHANGED <<up_entry, up_cache, up_remote0>>
    /\ UpFrame

\* the server changes a file of the resource behind the store's back
remote_edit(name) ==
    /\ ~up_done
    /\ name \in DOMAIN up_remote
    /\ up_remote[name] = "old"
    /\ up_remote' = [up_remote EXCEPT ![name] = "edited"]
    /\ up_remote0' = up_remote'
    /\ UNCHANGED <<up_entry, up_cache, up_done>>
    /\ UpFrame

UpIdle ==
    /\ up_entry = [path |-> "", uri |-> NoUri]
    /\ up_cache = NoFiles
    /\ up_remote = NoFiles
    /\ up_remote0 = NoFiles
    /\ up_done = FALSE

(***************************************************************************)
(* Provenance: _provenance_location, get_provenance, put_provenance        *)
(***************************************************************************)
\* self.PROV_RESOURCE, the reserved label of the resource that holds the
\* provenance records of a row
ProvResource == "__provenance__"

\* cache_path.parent.mkdir(parent=True, exist_ok=True): pathlib's mkdir
\* takes "parents"; it rejects the keyword "parent"
MkdirParent == "TypeError"

\* xrow.resources[self.PROV_RESOURCE]
HasProvResource(xrow) ==
    \E r \in ResourcesOf(xrow) : r.label = ProvResource

\* _provenance_location(item, create_resource): the error it raises, ""
\* when it returns
provenance_location(xrow, create_resource) ==
    IF xrow.kind = "KeyError" THEN "KeyError"
    ELSE IF MkdirParent # "" THEN MkdirParent
    ELSE IF ~HasProvResource(xrow) /\ ~create_resource THEN "KeyError"
    ELSE ""

ProvOutcome(op, value, error) == [op |-> op, value |-> value, error |-> error]
EmptyRecord == [k \in {} |-> ""]
\* the record stored in the provenance resource of a row
StoredRecord == [workflow |-> "w1"]

\* try: ... = self._provenance_location(item)
\* except KeyError: return {}
get_provenance ==
    LET xrow == XrowOf(row)
        error == provenance_location(xrow, FALSE)
    IN  /\ xsubjects' = SubjectsAfterXrow(row)
        /\ prov_result' =
              IF error = "KeyError" THEN ProvOutcome("get_provenance", EmptyRecord, "")
              ELSE IF error # "" THEN ProvOutcome("get_provenance", EmptyRecord, error)
              ELSE ProvOutcome("get_provenance", StoredRecord, "")
        /\ NotAPopulate
        /\ NotAGetXrow
        /\ UNCHANGED <<row, xsessions, xscans, xfields, xresources, entries,
                       prov_item>>
        /\ UNCHANGED <<treeVars, dlVars, csVars, connVars, upVars, defVars, wrVars>>

\* xresource, _, cache_path = self._provenance_location(item, create_resource=True)
put_provenance ==
    LET xrow == XrowOf(row)
        error == provenance_location(xrow, TRUE)
    IN  /\ xsubjects' = SubjectsAfterXrow(row)
        /\ prov_result' = ProvOutcome("put_provenance", EmptyRecord, error)
        /\ xresources' =
              IF error = "" /\ ~HasProvResource(xrow)
              THEN xresources \cup {[xrow |-> xrow.uri, label |-> ProvResource,
                                     format |-> "", files |-> EmptyFiles]}
              ELSE xresources
        /\ NotAPopulate
        /\ NotAGetXrow
        /\ UNCHANGED <<row, xsessions, xscans, xfields, entries, prov_item>>
        /\ UNCHANGED <<treeVars, dlVars, csVars, connVars, upVars, defVars, wrVars>>

ProvIdle ==
    /\ prov_item = [is_field |-> FALSE, path |-> ""]
    /\ prov_result = ProvOutcome("none", EmptyRecord, "")

(***************************************************************************)
(* Dataset definitions: save_dataset_definition, load_dataset_definition   *)
(***************************************************************************)
\* self.METADATA_RESOURCE, the reserved label of the metadata resource
METADATA_RESOURCE == "__arcana__"

DatasetIds == {"P1", "P2"}
DefinitionNames == {"default", "alt"}
\* definitions as the serialiser hands them over: JSON documents
Definitions == {
    [space |-> "Clinical", hierarchy |-> <<"subject", "timepoint">>],
    [space |-> "Clinical", hierarchy |-> <<"session">>] }

\* json.dump(definition, f, indent="    "): the text of the file
JsonList(seq) ==
    IF Len(seq) = 1 THEN "[\"" \o seq[1] \o "\"]"
    ELSE "[\"" \o seq[1] \o "\", \"" \o seq[2] \o "\"]"
JsonDump(definition) ==
    "{\"space\": \"" \o definition.space \o "\", \"hierarchy\": "
        \o JsonList(definition.hierarchy) \o "}"
\* json.load(f): the document a text parses to
JsonLoad(text) == CHOOSE d \in Definitions : JsonDump(d) = text

NoResource == [exists |-> FALSE, files |-> NoFiles]

\* an upload that keeps the file the resource already holds
upload_KeepOld(files, fname, text) == files @@ (fname :> text)

\* xresource.upload(str(definition_file), name + ".json", overwrite=True)
upload(files, fname, text) == (fname :> text) @@ files

\* xresource.download_dir(download_dir): the archive of the resource
\* unpacks to <project>/resources/<label>/files/<file name>
download_dir(id, label, files) ==
    [path \in {<<id, "resources", label, "files", f>> : f \in DOMAIN files} |->
        files[path[5]]]

\* download_dir / dataset_id / "resources" / "__arcana__" / "files" / (name + ".json")
DefinitionPath(id, name) ==
    <<id, "resources", "__arcana__", "files", name \o ".json">>

save_dataset_definition(dataset_id, definition, name) ==
    LET files == IF def_remote[dataset_id].exists
                 THEN def_remote[dataset_id].files ELSE NoFiles
    IN  /\ def_remote' = [def_remote EXCEPT ![dataset_id] =
              [exists |-> TRUE,
               files |-> upload(files, name \o ".json", JsonDump(definition))]]
        /\ def_saved' = (<<dataset_id, name>> :> definition) @@ def_saved
        /\ def_result' = [called |-> FALSE, id |-> "", name |-> "", value |-> None]
        /\ DefFrame

load_dataset_definition(dataset_id, name) ==
    LET xresource == def_remote[dataset_id]
        extracted == download_dir(dataset_id, METADATA_RESOURCE, xresource.files)
        fpath == DefinitionPath(dataset_id, name)
        definition == IF ~xresource.exists THEN None
                      ELSE IF fpath \in DOMAIN extracted
                      THEN Some(JsonLoad(extracted[fpath]))
                      ELSE None
    IN  /\ def_result' = [called |-> TRUE, id |-> dataset_id, name |-> name,
                          value |-> definition]
        /\ UNCHANGED <<def_remote, def_saved>>
        /\ DefFrame

NothingSaved == [k \in {} |-> 0]

DefIdle ==
    /\ def_remote = [id \in DatasetIds |-> NoResource]
    /\ def_saved = NothingSaved
    /\ def_result = [called |-> FALSE, id |-> "", name |-> "", value |-> None]

(***************************************************************************)
(* Specifications                                                          *)
(***************************************************************************)
\* the groups added after the first four, at rest
RestIdle == ConnIdle /\ UpIdle /\ ProvIdle /\ DefIdle /\ WrIdle

ScanTypes == {"T1", "T2"}
Qualities == {"usable", "questionable"}
ScanResourceSets == {{"DICOM"}, {"NIFTI"}, {"NIFTI", "secondary"}}
ScanBlueprints == [type : ScanTypes, quality : Qualities,
                   resources : ScanResourceSets]

\* the row-level resources a remote object may hold when the row is first seen
DerivResource(uri) == [xrow |-> uri, label |-> "deriv", format |-> "application/json",
                       files |-> (<<"a.txt">> :> "c1" @@ <<"sub", "b.txt">> :> "c2")]
DicomResource(uri) == [xrow |-> uri, label |-> "DICOM", format |-> "",
                       files |-> (<<"a.txt">> :> "c2")]
ResourceSets(uri) == {{}, {DerivResource(uri)}, {DicomResource(uri)},
                      {DerivResource(uri), DicomResource(uri)}}

\* the rows populate_row is followed on
PopulatedRows == {r \in Rows : r.id.parts \in {<<>>, <<"s1">>, <<"e1">>, <<"e2">>, <<"t1">>}}

RowBase ==
    /\ xsubjects = {"s1"}
    /\ xsessions = {"e1"}
    /\ entries = NoEntries
    /\ added = <<>>
    /\ pop_result = "none"
    /\ npop = 0
    /\ once = NoEntries
    /\ xrow_result = XKeyError("")
    /\ gx_calls = 0
    /\ gx_first = XKeyError("")
    /\ gx_subjects0 = {}

RowIdle ==
    /\ row = [frequency |-> "dataset", id |-> NoId]
    /\ xfields = {}
    /\ xscans = <<>>
    /\ xresources = {}
    /\ RowBase

TreeIdle == TreeInit

DlIdle ==
    /\ res_label = "deriv"
    /\ res_files = EmptyFiles
    /\ tmp_zip = "none"
    /\ expanded = EmptyFiles
    /\ target = Absent
    /\ target0 = Absent
    /\ dl_pc = "idle"
    /\ dl_err = NoError
    /\ local_sums = None
    /\ remote_sums = None

NoDirs == [d \in {} |-> NoFiles]
NoStaging == [exists |-> FALSE, links |-> [n \in {} |-> <<>>]]
NotCalled == [ok |-> FALSE, path |-> <<>>, error |-> "not called"]

CsIdle ==
    /\ row_frequency = "session"
    /\ cs_entry = [row |-> [frequency |-> "dataset", id |-> NoId],
                   id |-> <<>>, uri |-> NoUri, datatype |-> "FileSet"]
    /\ input_fs = NoDirs
    /\ output_fs = NoDirs
    /\ staging = NoStaging
    /\ mount_result = NotCalled
    /\ fs_result = NoResult

\* ---- populate_tree
InitTree == TreeInit /\ RowIdle /\ DlIdle /\ CsIdle /\ RestIdle

NextTree == TreeNext

SpecTree == InitTree /\ [][NextTree]_vars

\* ---- populate_row
InitRow ==
    /\ TreeIdle
    /\ CsIdle
    /\ RestIdle
    /\ DlIdle
    /\ row \in PopulatedRows
    /\ xscans \in UNION {[1..n -> ScanBlueprints] : n \in 0..MaxScans}
    /\ RowBase
    /\ xresources \in IF row.frequency \in StandardFrequencies
                          /\ XrowOf(row).kind # "KeyError"
                       THEN ResourceSets(XrowOf(row).uri) ELSE {{}}
    \* a custom field set on the remote object by another client
    /\ xfields \in IF XrowOf(row).kind = "experiment"
                    THEN {{}, {[xrow |-> XrowOf(row).uri, id |-> "f__bad__"]}}
                    ELSE {{}}

NextRow ==
    \/ populate_row
    \/ \E f \in FieldIds : put_field(f)
    \/ \E p \in {"@deriv", "T1/NIFTI"} : create_fileset_entry(p, "Json")

SpecRow == InitRow /\ [][NextRow]_vars

\* ---- get_xrow
InitXrow ==
    /\ TreeIdle
    /\ CsIdle
    /\ RestIdle
    /\ DlIdle
    /\ row \in Rows
    /\ xscans = <<>>
    /\ xfields = {}
    /\ xresources = {}
    /\ RowBase

NextXrow ==
    \/ get_xrow
    \/ \E l \in SubjectLabels : CreateSubject(l)
    \/ \E f \in FieldIds : put_field(f)

SpecXrow == InitXrow /\ [][NextXrow]_vars

\* ---- download_files, get_checksums, calculate_checksums
\* what the cache path may hold before the call: nothing, or the file set
\* of an earlier download
OldTargets == {Absent, Dir(<<"a.txt">> :> "c0"),
               Dir(<<"a.txt">> :> "c0" @@ <<"old.txt">> :> "c0")}

InitDownload ==
    /\ TreeIdle
    /\ CsIdle
    /\ RestIdle
    /\ RowIdle
    /\ res_label \in {"DICOM", "deriv"}
    /\ res_files \in FileMaps(RelPaths)
    /\ tmp_zip = "none"
    /\ expanded = EmptyFiles
    /\ target \in OldTargets
    /\ target0 = target
    /\ dl_pc = "start"
    /\ dl_err = NoError
    /\ local_sums = None
    /\ remote_sums = None

NextDownload ==
    \/ download_stream
    \/ extractall
    \/ extract_BadZipfile
    \/ extract_OtherError
    \/ glob_files
    \/ rmtree_absent
    \/ rmtree_unlink
    \/ rmtree_rmdir
    \/ rmtree_OSError
    \/ move
    \/ crash
    \/ get_checksums_of_entry
    \/ calculate_checksums

SpecDownload == InitDownload /\ [][NextDownload]_vars

\* ---- the direct-mount store
MountFrequencies == {"dataset", "subject", "session", "timepoint"}
CsRows == {
    [frequency |-> "dataset", id |-> NoId],
    [frequency |-> "subject", id |-> StrId("s1")],
    [frequency |-> "session", id |-> StrId("e1")],
    [frequency |-> "timepoint", id |-> StrId("t1")] }
CsDatatypes == {"Directory", "FileSet", "Dicom"}

\* the entries populate_row registers for the row (they carry the URI of a
\* resource), and the entry of a derivative created without a URI
CsEntriesOf(r) ==
    {[row |-> r, id |-> <<"@" \o l>>, uri |-> get_resource_uri(XResourceUri(RowUri(r), l), l),
      datatype |-> d] : l \in {"deriv", "rescans"}, d \in CsDatatypes}
    \cup {[row |-> r, id |-> <<"T1", "DICOM">>,
           uri |-> get_resource_uri(
                      XResourceUri(RowUri(r) \o <<"scans", "1">>, "DICOM"), "DICOM"),
           datatype |-> d] : d \in IF r.frequency = "session" THEN CsDatatypes ELSE {}}
    \cup {[row |-> r, id |-> <<"deriv">>, uri |-> NoUri, datatype |-> d] :
           d \in CsDatatypes}

\* what a resource directory of the archive holds: its files and the catalog
ItemSets(label) ==
    {("a.dcm" :> "c1") @@ ((label \o "_catalog.xml") :> "cat"),
     ("a.dcm" :> "c1") @@ ("b.dcm" :> "c2") @@ ((label \o "_catalog.xml") :> "cat")}

InitMount ==
    /\ RestIdle
    /\ TreeIdle
    /\ RowIdle
    /\ DlIdle
    /\ row_frequency \in MountFrequencies
    /\ \E r \in CsRows : cs_entry \in CsEntriesOf(r)
    /\ IF cs_entry.uri = NoUri
       THEN /\ input_fs = NoDirs
            /\ output_fs \in {NoDirs, entry_path(cs_entry) :> ("out.json" :> "c3")}
       ELSE /\ \E items \in ItemSets(cs_entry.uri[Len(cs_entry.uri)]) :
                 input_fs = (RowRoot(cs_entry) \o ServerDir(cs_entry.uri)) :> items
            /\ output_fs = NoDirs
    /\ staging \in {NoStaging,
                     [exists |-> TRUE, links |-> ("old.dcm" :> <<"input", "old.dcm">>)]}
    /\ mount_result = NotCalled
    /\ fs_result = NoResult

NextMount ==
    \/ call_get_input_mount
    \/ get_fileset
    \/ \E n \in {"b.dcm", "c.dcm"} : archive_update(n)

SpecMount == InitMount /\ [][NextMount]_vars

\* ---- put_fileset, post_fileset
WriteIds == {<<"deriv", "a">>, <<"deriv", "b">>, <<"other", "c">>}
\* the file sets a pipeline hands over for the derivative at a path
FileSets(r, id) ==
    {[row |-> r, path |-> id, datatype |-> "FileSet", files |-> (".json" :> v)] :
        v \in {"v1", "v2"}}
    \cup {[row |-> r, path |-> id, datatype |-> "Directory",
           files |-> ("x.txt" :> "v1")]}
\* the entry put_fileset is given: the one registered for the path, or a
\* derivative that was created without a URI
PutEntries(r, id, fileset) ==
    {[row |-> r, id |-> id, uri |-> NoUri, datatype |-> fileset.datatype]}
    \cup {written[i].entry : i \in DOMAIN written \cap {id}}

\* a row _make_uri has a branch for, and one it has none for
WriteRows == {r \in CsRows : r.frequency \in {"session", "timepoint"}}
WriteFrequencies == {"dataset", "session"}

InitWrite ==
    /\ TreeIdle /\ RowIdle /\ DlIdle /\ ConnIdle /\ UpIdle /\ ProvIdle /\ DefIdle
    /\ WrIdle
    /\ row_frequency \in WriteFrequencies
    /\ \E r \in WriteRows :
          cs_entry = [row |-> r, id |-> <<>>, uri |-> NoUri, datatype |-> "FileSet"]
    /\ input_fs \in {NoDirs,
                      (InputMount \o <<"RESOURCES", "deriv", "a">>) :>
                          ("a.json" :> "v0")}
    /\ output_fs = NoDirs
    /\ staging = NoStaging
    /\ mount_result = NotCalled
    /\ fs_result = NoResult

NextWrite ==
    \/ \E id \in WriteIds : \E fileset \in FileSets(cs_entry.row, id) :
          post_fileset(fileset, id, fileset.datatype, cs_entry.row)
    \/ \E id \in WriteIds : \E fileset \in FileSets(cs_entry.row, id) :
          \E entry \in PutEntries(cs_entry.row, id, fileset) :
              put_fileset(fileset, entry)
    \/ (wr_op # "none" /\ wr_error = "" /\ get_fileset)

SpecWrite == InitWrite /\ [][NextWrite]_vars

\* ---- the scoped connection
InitConn ==
    /\ TreeIdle /\ RowIdle /\ DlIdle /\ CsIdle /\ ConnIdle /\ UpIdle /\ ProvIdle
    /\ DefIdle /\ WrIdle

NextConn ==
    \/ \E op \in Operations \cup {"caller"} : enter(op)
    \/ exit

SpecConn == InitConn /\ [][NextConn]_vars

\* ---- upload_files
UploadNames == {"a.dcm", "b.dcm", "c.dcm"}
\* a primary entry of a scan and a derivative entry of the session
UploadEntries == {
    [path |-> "T1/DICOM",
     uri |-> get_resource_uri(
                XResourceUri(ScanUri(XExperiment("e1"), 1), "DICOM"), "DICOM")],
    [path |-> "@deriv",
     uri |-> get_resource_uri(XResourceUri(XExperiment("e1").uri, "deriv"), "deriv")] }

InitUpload ==
    /\ TreeIdle /\ RowIdle /\ DlIdle /\ CsIdle /\ ConnIdle /\ ProvIdle /\ DefIdle
    /\ WrIdle
    /\ up_entry \in UploadEntries
    /\ up_cache \in UNION {[N -> {"new"}] : N \in SUBSET UploadNames \ {{}}}
    /\ up_remote \in UNION {[N -> {"old"}] : N \in SUBSET UploadNames}
    /\ up_remote0 = up_remote
    /\ up_done = FALSE

NextUpload ==
    \/ upload_files
    \/ \E n \in UploadNames : remote_edit(n)

SpecUpload == InitUpload /\ [][NextUpload]_vars

\* ---- provenance
ProvItems == [is_field : BOOLEAN, path : {"T1/DICOM", "@deriv", "f1"}]
\* the provenance resource another client stored on the row
StoredProvenance(uri) ==
    [xrow |-> uri, label |-> ProvResource, format |-> "",
     files |-> (<<"deriv.json">> :> "w1")]

InitProv ==
    /\ TreeIdle /\ DlIdle /\ CsIdle /\ ConnIdle /\ UpIdle /\ DefIdle /\ WrIdle
    /\ row \in Rows
    /\ xscans = <<>>
    /\ xfields = {}
    /\ RowBase
    /\ xresources \in IF XrowOf(row).kind # "KeyError"
                       THEN {{}, {StoredProvenance(XrowOf(row).uri)}} ELSE {{}}
    /\ prov_item \in ProvItems
    /\ prov_result = ProvOutcome("none", EmptyRecord, "")

NextProv ==
    \/ get_provenance
    \/ put_provenance

SpecProv == InitProv /\ [][NextProv]_vars

\* ---- dataset definitions
InitDef ==
    /\ TreeIdle /\ RowIdle /\ DlIdle /\ CsIdle /\ ConnIdle /\ UpIdle /\ ProvIdle
    /\ WrIdle
    /\ DefIdle

NextDef ==
    \/ \E id \in DatasetIds, d \in Definitions, n \in DefinitionNames :
          save_dataset_definition(id, d, n)
    \/ \E id \in DatasetIds, n \in DefinitionNames :
          load_dataset_definition(id, n)

SpecDef == InitDef /\ [][NextDef]_vars

(***************************************************************************)
(* C1                                                                      *)
(***************************************************************************)
\* M_i: the number of sessions of subject s in an experiment collection
SessionsOf(exps, s) == Cardinality({e \in exps : e.subject = s})

RECURSIVE SumSessions(_, _)
SumSessions(exps, subjs) ==
    IF subjs = {} THEN 0
    ELSE LET s == CHOOSE x \in subjs : TRUE
         IN  SessionsOf(exps, s) + SumSessions(exps, subjs \ {s})

\* C1: populate_tree on a project with N subjects of M_i sessions each adds
\* exactly sum(M_i) leaves, one per experiment, each keyed by the pair
\* (subject label, experiment label), and no two leaves carry the same pair.
C1_LeavesArePairs ==
    populated =>
        /\ Len(leaves) = SumSessions(tree_src, SubjectLabels)
        /\ \A e \in tree_src :
              Cardinality({i \in 1..Len(leaves) :
                              leaves[i] = <<e.subject, e.label>>}) = 1
        /\ \A i \in 1..Len(leaves) :
              \E e \in tree_src : leaves[i] = <<e.subject, e.label>>
        /\ \A i, j \in 1..Len(leaves) : leaves[i] = leaves[j] => i = j

\* two subjects, one of them with two sessions, populated
C1_Witness ==
    /\ populated
    /\ Len(leaves) = 3
    /\ \E s \in SubjectLabels : SessionsOf(tree_src, s) = 2
    /\ \E s \in SubjectLabels : SessionsOf(tree_src, s) = 1

(***************************************************************************)
(* C2                                                                      *)
(***************************************************************************)
\* C2: populate_row is idempotent: populating a row twice with no change on
\* the remote side in between leaves the row with the entry set (paths,
\* datatypes, checksums) that populating it once left.
C2_PopulateIdempotent == npop >= 2 => entries = once

\* a session row with a scan, a field and a resource with files, populated twice
C2_Witness ==
    /\ npop = 2
    /\ pop_result = "ok"
    /\ \E p \in DOMAIN entries : entries[p].order # None
    /\ \E p \in DOMAIN entries : entries[p].datatype = "Field"
    /\ \E p \in DOMAIN entries :
          /\ entries[p].checksums # None
          /\ \E c \in entries[p].checksums : DOMAIN c # {}

(***************************************************************************)
(* C3                                                                      *)
(***************************************************************************)
SessionRow == [frequency |-> "session", id |-> StrId("e1")]

JustPopulated == npop >= 1 /\ pop_result = "ok"

ScanPairs == {<<i, l>> \in (1..Len(xscans)) \X {"DICOM", "NIFTI", "secondary"} :
                 l \in xscans[i].resources}

\* C3: for a session row populate_row registers exactly one entry per
\* (scan, resource of that scan) pair, at path "<scan type>/<resource label>",
\* with order = the scan id and quality = the scan's quality flag; for a
\* session whose only remote content is scans the row's entry paths are
\* exactly those paths.
C3_OneEntryPerScanResource ==
    (JustPopulated /\ row = SessionRow) =>
        /\ \A pr \in ScanPairs :
              Cardinality({k \in 1..Len(added) :
                  /\ added[k].path = xscans[pr[1]].type \o "/" \o pr[2]
                  /\ added[k].order = Some(pr[1])
                  /\ added[k].quality = xscans[pr[1]].quality}) = 1
        /\ Cardinality({k \in 1..Len(added) : added[k].order # None})
              = Cardinality(ScanPairs)
        /\ (xfields = {} /\ xresources = {}) =>
              DOMAIN entries =
                 {xscans[pr[1]].type \o "/" \o pr[2] : pr \in ScanPairs}

\* two scans of the same type, one of them with two resources, and nothing
\* else on the session
C3_Witness ==
    /\ JustPopulated
    /\ row = SessionRow
    /\ xfields = {} /\ xresources = {}
    /\ Len(xscans) = 2
    /\ xscans[1].type = xscans[2].type
    /\ xscans[1].quality # xscans[2].quality
    /\ Cardinality(xscans[2].resources) = 2
    /\ Len(added) = 3

(***************************************************************************)
(* C4                                                                      *)
(***************************************************************************)
\* C4: for every resource attached to a scan, the entry populate_row
\* registers has the DICOM-series datatype when the resource label is "DICOM"
\* or "secondary", and the generic file-set datatype for every other label.
C4_ScanResourceDatatype ==
    (JustPopulated /\ row = SessionRow) =>
        \A pr \in ScanPairs :
            \E k \in 1..Len(added) :
                /\ added[k].path = xscans[pr[1]].type \o "/" \o pr[2]
                /\ added[k].order = Some(pr[1])
                /\ added[k].datatype =
                       IF pr[2] \in {"DICOM", "secondary"} THEN "DicomSet"
                       ELSE "FileSet"

(***************************************************************************)
(* C8                                                                      *)
(***************************************************************************)
\* the name the placeholder subject of a non-standard row is expected under
ExpectedPlaceholder(r) ==
    CASE r.frequency = "timepoint" -> "__timepoint_t1__"
      [] r.frequency = "batch" -> "__batch_g1_t1__"
      [] OTHER -> ""

\* C8: get_xrow is deterministic: repeated calls for the same row against an
\* unchanged remote state return the same object (identity/URI), and for a
\* non-standard frequency they create-or-fetch one single placeholder subject
\* under the synthesized name, never a second one.
C8_GetXrowDeterministic ==
    gx_calls >= 2 =>
        /\ xrow_result = gx_first
        /\ Cardinality(xsubjects \ gx_subjects0) <= 1
        /\ row.frequency \notin StandardFrequencies =>
              /\ xrow_result.kind = "subject"
              /\ xrow_result.label = ExpectedPlaceholder(row)
              /\ xsubjects \ gx_subjects0 \subseteq {ExpectedPlaceholder(row)}
              /\ ExpectedPlaceholder(row) \in xsubjects

\* a row with a tuple id resolved twice: the placeholder exists once
C8_Witness ==
    /\ gx_calls = 2
    /\ row.frequency = "batch"
    /\ xrow_result.uri = ProjectUri \o <<"subjects", "__batch_g1_t1__">>
    /\ xsubjects \ gx_subjects0 = {"__batch_g1_t1__"}

(***************************************************************************)
(* C5                                                                      *)
(***************************************************************************)
CorruptArchiveSeen == tmp_zip = "corrupt" /\ dl_pc \notin {"downloaded", "crashed"}

\* C5: when the downloaded archive is corrupted or truncated,
\* download_files fails with the adapter's transfer error (ArcanaError)
\* wrapping the decompression failure, and after that failure the target
\* cache path is absent, whatever the target path held before the call.
C5_CorruptArchiveLeavesAbsent ==
    CorruptArchiveSeen =>
        /\ dl_pc = "failed"
        /\ dl_err = [type |-> "ArcanaError", cause |-> "BadZipfile"]
        /\ ~target.exists

(***************************************************************************)
(* C6                                                                      *)
(***************************************************************************)
\* C6: download_files never leaves a partially populated directory at the
\* target cache path: in every state during or after a download, a failure
\* or a crash included, the path is absent or holds one complete extracted
\* file set (the earlier one or the new one).
C6_TargetAbsentOrComplete ==
    target.exists => target.files \in {target0.files, res_files}

(***************************************************************************)
(* C7                                                                      *)
(***************************************************************************)
\* C7: for every remote resource with at least one file, the mapping
\* (file key -> digest) that calculate_checksums computes on the file set
\* download_files produced equals the mapping get_checksums returns for the
\* resource: the same keys, the same digest per key.
C7_ChecksumsRoundTrip ==
    (local_sums # None /\ remote_sums # None /\ DOMAIN res_files # {}) =>
        local_sums = remote_sums

(***************************************************************************)
(* C9                                                                      *)
(***************************************************************************)
\* C9: get_input_mount returns the input mount root when the entry's row
\* frequency equals the configured mount frequency, returns the mount root
\* joined with the row id when the mount frequency is dataset-level and the
\* row frequency is session-level, and signals the no-direct-mount error
\* for every other combination of the two frequencies.
C9_MountResolution ==
    mount_result # NotCalled =>
        LET rf == cs_entry.row.frequency
        IN  IF row_frequency = rf
            THEN mount_result.ok /\ mount_result.path = <<"input">>
            ELSE IF row_frequency = "dataset" /\ rf = "session"
            THEN /\ mount_result.ok
                 /\ mount_result.path = <<"input">> \o cs_entry.row.id.parts
            ELSE ~mount_result.ok /\ mount_result.error = NoDirectMount

\* a dataset-level mount resolved for an entry of session e1
C9_Witness ==
    /\ row_frequency = "dataset"
    /\ cs_entry.row.frequency = "session"
    /\ mount_result.ok
    /\ mount_result.path = <<"input", "e1">>

(***************************************************************************)
(* C10                                                                     *)
(***************************************************************************)
NeitherCondition ==
    /\ row_frequency # cs_entry.row.frequency
    /\ ~(row_frequency = "dataset" /\ cs_entry.row.frequency = "session")

\* C10: the no-direct-mount error never reaches the caller of get_fileset:
\* for every entry whose row frequency satisfies neither matching condition
\* of the mount resolution, get_fileset takes the network path instead of
\* the direct path and returns the file contents the network store returns
\* for the entry: the files of the resource on the server.
C10_FallbackToNetwork ==
    (fs_result # NoResult /\ NeitherCondition) =>
        /\ fs_result.error # NoDirectMount
        /\ fs_result.via = "api"
        /\ cs_entry.uri # NoUri =>
              /\ fs_result.error = ""
              /\ fs_result.files =
                    ServerFiles(input_fs, InputMount, cs_entry.uri)

\* a subject-level mount and an entry of a session: the files came over
\* the network path
C10_Witness ==
    /\ row_frequency = "subject"
    /\ cs_entry.row.frequency = "session"
    /\ fs_result.via = "api"
    /\ DOMAIN fs_result.files = {"a.dcm", "b.dcm"}

(***************************************************************************)
(* C20                                                                     *)
(***************************************************************************)
\* C20: for every derivative path p accepted by create_fileset_entry, the
\* entry the call adds to the row has the same path as the entry a following
\* populate_row of the same row registers for the resource that was
\* created: creating and then re-populating yields one entry for that
\* resource, not two entries under different paths.
C20_OneEntryPerResource ==
    pop_result = "ok" =>
        \A p, q \in DOMAIN entries :
            (entries[p].uri # NoUri /\ entries[p].uri = entries[q].uri) => p = q

(***************************************************************************)
(* C15                                                                     *)
(***************************************************************************)
\* path.startswith("@") over the paths of the model
HasMarker(path) ==
    \E bare \in {"deriv", "deriv/out", "DICOM", "NIFTI", "secondary"} :
        path = "@" \o bare

\* C15: in every state reachable by populate_row, create_fileset_entry and
\* post_fileset calls, every file-set entry held by a row whose frequency is
\* not session has the derivative marker "@" in its path; entries without
\* the marker exist only on session rows.
C15_MarkerOffSession ==
    row.frequency # "session" =>
        \A p \in DOMAIN entries :
            entries[p].datatype # "Field" => HasMarker(p)

(***************************************************************************)
(* C16                                                                     *)
(***************************************************************************)
\* C16: when populate_row fails with a resolution or translation error (the
\* row cannot be resolved, or a field id or resource label cannot be
\* translated to a path, at any position in the enumeration), the error
\* reaches the caller and the row holds no entry added by that call.
C16_FailedPopulateAddsNothing ==
    pop_result \in {"KeyError", "ValueError"} => added = <<>>

C14_PrimaryNotOverwritten ==
    (up_done /\ ~HasMarker(up_entry.path)) =>
        \A n \in DOMAIN up_remote0 : up_remote[n] = up_remote0[n]

(***************************************************************************)
(* C12                                                                     *)
(***************************************************************************)
\* C12: get_provenance on an item whose row has no provenance resource on
\* the remote returns an empty record and raises no error.
C12_AbsentProvenanceIsEmpty ==
    (prov_result.op = "get_provenance" /\ ~HasProvResource(XrowOf(row))) =>
        /\ prov_result.error = ""
        /\ prov_result.value = EmptyRecord

(***************************************************************************)
(* C13                                                                     *)
(***************************************************************************)
\* C13: after any sequence of save_dataset_definition calls,
\* load_dataset_definition(id, name) returns the definition most recently
\* saved under that dataset id and name, and returns "no definition" (no
\* error) when nothing was saved under that id and name, including when the
\* reserved metadata resource does not exist.
C13_LoadReturnsLastSaved ==
    def_result.called =>
        def_result.value =
            IF <<def_result.id, def_result.name>> \in DOMAIN def_saved
            THEN Some(def_saved[<<def_result.id, def_result.name>>])
            ELSE None

\* a load of (P1, default) returned what was saved there, while (P1, alt)
\* holds the other definition and nothing was ever saved for P2
C13_Witness ==
    /\ def_result.called
    /\ def_result.id = "P1" /\ def_result.name = "default"
    /\ def_result.value # None
    /\ <<"P1", "alt">> \in DOMAIN def_saved
    /\ def_result.value # Some(def_saved[<<"P1", "alt">>])
    /\ ~def_remote["P2"].exists

ContentsOf(files) == {files[n] : n \in DOMAIN files}

\* C11: after a derivative file set is written through the direct-mount
\* store with post_fileset, the URI of the entry is the synthesized
\* remote-style URI and the next get_fileset on that entry returns the files
\* that were just written under the output mount.
C11_ReadsBackWritten ==
    (wr_op = "post" /\ wr_error = "" /\ fs_result # NoResult) =>
        /\ cs_entry.uri # NoUri
        /\ fs_result.error = ""
        /\ \A f \in fs_result.fspaths : IsBelow(f, OutputMount)
        /\ ContentsOf(fs_result.files) = ContentsOf(written[wr_last].fileset.files)

(***************************************************************************)
(* C19                                                                     *)
(***************************************************************************)
\* the output mount still holds what was handed over for the entry
Kept(id) ==
    LET w == written[id]
        at == entry_path(w.entry)
    IN  IF IsDir(w.fileset.datatype)
        THEN at \in DOMAIN output_fs /\ output_fs[at] = w.fileset.files
        ELSE /\ Parent(at) \in DOMAIN output_fs
             /\ \A ext \in DOMAIN w.fileset.files :
                   /\ (Name(at) \o ext) \in DOMAIN output_fs[Parent(at)]
                   /\ output_fs[Parent(at)][Name(at) \o ext] = w.fileset.files[ext]

\* C19: writing one derivative entry with put_fileset changes only the
\* location of that entry under the output mount: the files written earlier
\* for every other entry, an entry whose path shares all but the last segment
\* with the written one included, are left unchanged.
C19_OtherEntriesKept ==
    \A id \in DOMAIN written \ {wr_last} : Kept(id)

====
